---- MODULE Spec2Model ----
(***************************************************************************)
(* Model of fusabi-tui (src/projects/fusabi-tui/src): the graph canvas     *)
(* (canvas/bounds.rs, node.rs, edge.rs, graph.rs), the formatting          *)
(* functions (formatting/numbers.rs, bytes.rs, time.rs) and the formatting *)
(* natives of bindings/mod.rs.                                             *)
(*                                                                         *)
(* Numbers.  The code computes in f64.  The model computes in exact        *)
(* fixed-point arithmetic: a coordinate is an integer count of 1/Scale     *)
(* canvas units, so 5.0 is 5 * Scale and 0.001 is Scale / 1000.  The       *)
(* inputs the specifications draw are chosen so that every quotient and    *)
(* square root the code takes on them is exact on this grid; f64 rounding  *)
(* (a last-place error of about 1e-16 relative) is not modelled.           *)
(***************************************************************************)
EXTENDS Integers, Sequences, FiniteSets, TLC

VARIABLES
    nodes,      \* GraphData.nodes: Vec<GraphNode>
    edges,      \* GraphData.edges: Vec<GraphEdge>
    canvas,     \* the GraphCanvas borrowed from the graph, when one is live
    arg,        \* the arguments of a call to one of the free functions
    out         \* what the last operation returned or emitted

vars == <<nodes, edges, canvas, arg, out>>

(***************************************************************************)
(* Fixed-point stand-in for f64                                            *)
(***************************************************************************)
Scale == 2000

U(n) == n * Scale

FMin(a, b) == IF a <= b THEN a ELSE b

FMax(a, b) == IF a >= b THEN a ELSE b

\* a * b for two fixed-point numbers
FMul(a, b) == (a * b) \div Scale

\* a / b for two fixed-point numbers
FDiv(a, b) == (a * Scale) \div b

\* a / 2.0
Half(a) == a \div 2

RECURSIVE SqrtIter(_, _, _)
SqrtIter(n, lo, hi) ==
    IF lo >= hi THEN lo
    ELSE LET mid == (lo + hi + 1) \div 2
         IN  IF mid * mid <= n THEN SqrtIter(n, mid, hi)
                               ELSE SqrtIter(n, lo, mid - 1)

\* (dx * dx + dy * dy).sqrt(): the sum of squares is kept at full precision
FHypot(dx, dy) == SqrtIter(dx * dx + dy * dy, 0, 46340)

(***************************************************************************)
(* Option<T>: None is the empty tuple, Some(v) the one-element tuple       *)
(***************************************************************************)
None == <<>>

Some(v) == <<v>>

(***************************************************************************)
(* graph.rs: the data types                                                *)
(***************************************************************************)
GraphNode(id, x, y, width, height, color, selected) ==
    [id |-> id, x |-> x, y |-> y, width |-> width, height |-> height,
     color |-> color, label |-> id, selected |-> selected]

\* GraphNode::new: default dimensions 8 x 4, Blue, not selected
GraphNode_new(id, x, y) == GraphNode(id, x, y, U(8), U(4), "Blue", FALSE)

GraphEdge(from, to, color, label) ==
    [from |-> from, to |-> to, color |-> color, label |-> label]

\* GraphEdge::new: Cyan, no label
GraphEdge_new(from, to) == GraphEdge(from, to, "Cyan", None)

(***************************************************************************)
(* bounds.rs: calculate_bounds                                             *)
(***************************************************************************)
\* faulty variant: an all-zero default viewport
DefaultBounds_zero == <<0, 0, 0, 0>>

\* the viewport of an empty node slice
DefaultBounds == <<0, U(100), 0, U(100)>>

\* faulty variant: later nodes counted by their corner only, without their size
RECURSIVE FoldBounds_no_size(_, _, _)
FoldBounds_no_size(ns, i, acc) ==
    IF i > Len(ns) THEN acc
    ELSE FoldBounds_no_size(ns, i + 1,
                            [min_x |-> FMin(acc.min_x, ns[i].x),
                             max_x |-> FMax(acc.max_x, ns[i].x),
                             min_y |-> FMin(acc.min_y, ns[i].y),
                             max_y |-> FMax(acc.max_y, ns[i].y)])

RECURSIVE FoldBounds(_, _, _)
\* the loop over nodes.iter().skip(1)
FoldBounds(ns, i, acc) ==
    IF i > Len(ns) THEN acc
    ELSE FoldBounds(ns, i + 1,
                    [min_x |-> FMin(acc.min_x, ns[i].x),
                     max_x |-> FMax(acc.max_x, ns[i].x + ns[i].width),
                     min_y |-> FMin(acc.min_y, ns[i].y),
                     max_y |-> FMax(acc.max_y, ns[i].y + ns[i].height)])

\* the initial bounds including node dimensions
TightBounds(ns) ==
    FoldBounds(ns, 2, [min_x |-> ns[1].x,
                       max_x |-> ns[1].x + ns[1].width,
                       min_y |-> ns[1].y,
                       max_y |-> ns[1].y + ns[1].height])

\* (range * 0.1).max(5.0)
Padding(range) == FMax(FMul(range, Scale \div 10), U(5))

\* faulty variant: no minimum size
EnsureMinimumSize_off(lo, hi) == <<lo, hi>>

\* if max - min < 20.0 { center = (min + max) / 2.0; min = center - 10.0; ... }
EnsureMinimumSize(lo, hi) ==
    IF hi - lo < U(20)
    THEN LET center == Half(lo + hi) IN <<center - U(10), center + U(10)>>
    ELSE <<lo, hi>>

\* faulty variant: both axes padded from the larger of the two ranges
calculate_bounds_shared_padding(ns) ==
    IF ns = <<>> THEN DefaultBounds
    ELSE LET t  == TightBounds(ns)
             p  == Padding(FMax(t.max_x - t.min_x, t.max_y - t.min_y))
             bx == EnsureMinimumSize(t.min_x - p, t.max_x + p)
             by == EnsureMinimumSize(t.min_y - p, t.max_y + p)
         IN  <<bx[1], bx[2], by[1], by[2]>>

\* (min_x, max_x, min_y, max_y)
calculate_bounds(ns) ==
    IF ns = <<>> THEN DefaultBounds
    ELSE LET t  == TightBounds(ns)
             px == Padding(t.max_x - t.min_x)
             py == Padding(t.max_y - t.min_y)
             bx == EnsureMinimumSize(t.min_x - px, t.max_x + px)
             by == EnsureMinimumSize(t.min_y - py, t.max_y + py)
         IN  <<bx[1], bx[2], by[1], by[2]>>

(***************************************************************************)
(* Drawing primitives handed to ctx.draw, in the order drawn               *)
(***************************************************************************)
CanvasLine(x1, y1, x2, y2, color) ==
    [kind |-> "line", x1 |-> x1, y1 |-> y1, x2 |-> x2, y2 |-> y2, color |-> color]

Rectangle(x, y, width, height, color) ==
    [kind |-> "rectangle", x |-> x, y |-> y, width |-> width, height |-> height,
     color |-> color]

Points(coords, color) == [kind |-> "points", coords |-> coords, color |-> color]

(***************************************************************************)
(* node.rs                                                                 *)
(***************************************************************************)
\* border_width = 1.0, highlight_color = Yellow
draw_selection_highlight(node) ==
    LET border_width == U(1)
        highlight_color == "Yellow"
    IN  << Rectangle(node.x - border_width, node.y - border_width,
                     node.width + 2 * border_width, node.height + 2 * border_width,
                     highlight_color),
           Points(<< <<node.x - border_width, node.y - border_width>>,
                     <<node.x + node.width + border_width, node.y - border_width>>,
                     <<node.x - border_width, node.y + node.height + border_width>>,
                     <<node.x + node.width + border_width,
                       node.y + node.height + border_width>> >>,
                  highlight_color) >>

\* faulty variant: the highlight is drawn after the node, on top of it
render_node_highlight_on_top(node) ==
    << Rectangle(node.x, node.y, node.width, node.height, node.color),
       Points(<< <<node.x + Half(node.width), node.y + Half(node.height)>> >>,
              node.color) >>
    \o (IF node.selected THEN draw_selection_highlight(node) ELSE <<>>)

\* faulty variant: the centre point takes the highlight color when selected
render_node_centre_highlighted(node) ==
    (IF node.selected THEN draw_selection_highlight(node) ELSE <<>>)
    \o << Rectangle(node.x, node.y, node.width, node.height, node.color),
          Points(<< <<node.x + Half(node.width), node.y + Half(node.height)>> >>,
                 IF node.selected THEN "Yellow" ELSE node.color) >>

render_node(node) ==
    (IF node.selected THEN draw_selection_highlight(node) ELSE <<>>)
    \o << Rectangle(node.x, node.y, node.width, node.height, node.color),
          Points(<< <<node.x + Half(node.width), node.y + Half(node.height)>> >>,
                 node.color) >>

\* faulty variant: a warning is looked at before an error
get_node_color_warning_first(node, is_error, is_warning) ==
    IF is_warning THEN "Yellow"
    ELSE IF is_error THEN "Red"
    ELSE IF node.selected THEN "Green"
    ELSE node.color

get_node_color(node, is_error, is_warning) ==
    IF is_error THEN "Red"
    ELSE IF is_warning THEN "Yellow"
    ELSE IF node.selected THEN "Green"
    ELSE node.color

calculate_node_center(node) ==
    <<node.x + Half(node.width), node.y + Half(node.height)>>

\* faulty variant: the right edge excluded
point_in_node_open_right(node, x, y) ==
    /\ x >= node.x
    /\ x < node.x + node.width
    /\ y >= node.y
    /\ y <= node.y + node.height

point_in_node(node, x, y) ==
    /\ x >= node.x
    /\ x <= node.x + node.width
    /\ y >= node.y
    /\ y <= node.y + node.height

(***************************************************************************)
(* edge.rs                                                                 *)
(***************************************************************************)
\* faulty variant: both base points offset to the same side of the direction line
calculate_arrow_points_same_side(tip_x, tip_y, ux, uy, size) ==
    << << tip_x - FMul(size, ux) + FMul(FMul(size, Scale \div 2), uy),
          tip_y - FMul(size, uy) - FMul(FMul(size, Scale \div 2), ux) >>,
       << tip_x - FMul(size, ux) + FMul(FMul(size, Scale \div 2), uy),
          tip_y - FMul(size, uy) - FMul(FMul(size, Scale \div 2), ux) >> >>

\* faulty variant: the fixed arrow size 1.5 of draw_arrow_head instead of size
calculate_arrow_points_fixed_size(tip_x, tip_y, ux, uy, size) ==
    LET fixed == (3 * Scale) \div 2
    IN  << << tip_x - FMul(fixed, ux) + FMul(FMul(fixed, Scale \div 2), uy),
              tip_y - FMul(fixed, uy) - FMul(FMul(fixed, Scale \div 2), ux) >>,
           << tip_x - FMul(fixed, ux) - FMul(FMul(fixed, Scale \div 2), uy),
              tip_y - FMul(fixed, uy) + FMul(FMul(fixed, Scale \div 2), ux) >> >>

calculate_arrow_points(tip_x, tip_y, ux, uy, size) ==
    << << tip_x - FMul(size, ux) + FMul(FMul(size, Scale \div 2), uy),
          tip_y - FMul(size, uy) - FMul(FMul(size, Scale \div 2), ux) >>,
       << tip_x - FMul(size, ux) - FMul(FMul(size, Scale \div 2), uy),
          tip_y - FMul(size, uy) + FMul(FMul(size, Scale \div 2), ux) >> >>

\* faulty variant: the side base1-base2 is not drawn
draw_arrow_head_open(tip_x, tip_y, ux, uy, color) ==
    LET points == calculate_arrow_points(tip_x, tip_y, ux, uy, (3 * Scale) \div 2)
    IN  << CanvasLine(tip_x, tip_y, points[1][1], points[1][2], color),
           CanvasLine(tip_x, tip_y, points[2][1], points[2][2], color) >>

\* arrow_size = 1.5; the three sides of the triangle tip, base1, base2
draw_arrow_head(tip_x, tip_y, ux, uy, color) ==
    LET arrow_size == (3 * Scale) \div 2
        half    == FMul(arrow_size, Scale \div 2)
        base1_x == tip_x - FMul(arrow_size, ux) + FMul(half, uy)
        base1_y == tip_y - FMul(arrow_size, uy) - FMul(half, ux)
        base2_x == tip_x - FMul(arrow_size, ux) - FMul(half, uy)
        base2_y == tip_y - FMul(arrow_size, uy) + FMul(half, ux)
    IN  << CanvasLine(tip_x, tip_y, base1_x, base1_y, color),
           CanvasLine(tip_x, tip_y, base2_x, base2_y, color),
           CanvasLine(base1_x, base1_y, base2_x, base2_y, color) >>

draw_label_indicator(x1, y1, x2, y2, color) ==
    << Points(<< <<Half(x1 + x2), Half(y1 + y2)>> >>, color) >>

\* if length < 0.001 { return; }
\* faulty variant: only an exactly zero length is skipped
ZeroLength_exact(length) == length = 0

ZeroLength(length) == length < Scale \div 1000

\* render_edge between the end points (x1, y1) and (x2, y2), skipping a length
\* below shortest, the indicator drawn when indicator holds
draw_edge_variant(edge, x1, y1, x2, y2, shortest, indicator) ==
    LET dx == x2 - x1
        dy == y2 - y1
        length == FHypot(dx, dy)
    IN  IF length < shortest THEN <<>>
        ELSE LET ux == FDiv(dx, length)
                 uy == FDiv(dy, length)
                 start_x == x1 + FMul(U(2), ux)
                 start_y == y1 + FMul(U(2), uy)
                 end_x   == x2 - FMul(U(2), ux)
                 end_y   == y2 - FMul(U(2), uy)
             IN  << CanvasLine(start_x, start_y, end_x, end_y, edge.color) >>
                 \o draw_arrow_head(end_x, end_y, ux, uy, edge.color)
                 \o (IF indicator
                     THEN draw_label_indicator(start_x, start_y, end_x, end_y, edge.color)
                     ELSE <<>>)

\* faulty variant: the end points are the nodes' positions, not their centres
draw_edge_between_corners(edge, from_node, to_node) ==
    draw_edge_variant(edge, from_node.x, from_node.y, to_node.x, to_node.y,
                      Scale \div 1000, edge.label # None)

\* faulty variant: a label with an empty text gets no indicator
draw_edge_label_text_needed(edge, from_node, to_node) ==
    draw_edge_variant(edge, from_node.x + Half(from_node.width),
                      from_node.y + Half(from_node.height),
                      to_node.x + Half(to_node.width),
                      to_node.y + Half(to_node.height),
                      Scale \div 1000, edge.label # None /\ edge.label # Some(""))

\* faulty variant: an edge too short for the two insets is skipped
draw_edge_skip_short(edge, from_node, to_node) ==
    draw_edge_variant(edge, from_node.x + Half(from_node.width),
                      from_node.y + Half(from_node.height),
                      to_node.x + Half(to_node.width),
                      to_node.y + Half(to_node.height),
                      U(4), edge.label # None)

\* the part of render_edge after both endpoints were found
draw_edge(edge, from_node, to_node) ==
    LET x1 == from_node.x + Half(from_node.width)
        y1 == from_node.y + Half(from_node.height)
        x2 == to_node.x + Half(to_node.width)
        y2 == to_node.y + Half(to_node.height)
        dx == x2 - x1
        dy == y2 - y1
        length == FHypot(dx, dy)
    IN  IF ZeroLength(length) THEN <<>>
        ELSE LET ux == FDiv(dx, length)
                 uy == FDiv(dy, length)
                 offset  == U(2)
                 start_x == x1 + FMul(offset, ux)
                 start_y == y1 + FMul(offset, uy)
                 end_x   == x2 - FMul(offset, ux)
                 end_y   == y2 - FMul(offset, uy)
             IN  << CanvasLine(start_x, start_y, end_x, end_y, edge.color) >>
                 \o draw_arrow_head(end_x, end_y, ux, uy, edge.color)
                 \o (IF edge.label # None
                     THEN draw_label_indicator(start_x, start_y, end_x, end_y, edge.color)
                     ELSE <<>>)

\* faulty variant: a missing destination replaced by a default node at the origin
render_edge_default_destination(edge, map) ==
    IF edge.from \notin DOMAIN map THEN <<>>
    ELSE IF edge.to \notin DOMAIN map
         THEN draw_edge(edge, map[edge.from], GraphNode_new(edge.to, 0, 0))
    ELSE draw_edge(edge, map[edge.from], map[edge.to])

\* map is the HashMap<String, &GraphNode>: a function from the ids it holds
render_edge(edge, map) ==
    IF edge.from \notin DOMAIN map THEN <<>>
    ELSE IF edge.to \notin DOMAIN map THEN <<>>
    ELSE draw_edge(edge, map[edge.from], map[edge.to])

(***************************************************************************)
(* graph.rs: GraphCanvas                                                   *)
(***************************************************************************)
RECURSIVE CollectMap(_, _, _)
\* nodes.iter().map(|n| (n.id.clone(), n)).collect(): each insert replaces
\* the value an equal key already had
CollectMap(ns, i, map) ==
    IF i > Len(ns) THEN map
    ELSE CollectMap(ns, i + 1,
                    [k \in DOMAIN map \cup {ns[i].id} |->
                        IF k = ns[i].id THEN ns[i] ELSE map[k]])

NodeMap(ns) == CollectMap(ns, 1, <<>>)

RECURSIVE RenderEdges(_, _, _)
RenderEdges(es, map, i) ==
    IF i > Len(es) THEN <<>>
    ELSE render_edge(es[i], map) \o RenderEdges(es, map, i + 1)

RECURSIVE RenderNodes(_, _)
RenderNodes(ns, i) ==
    IF i > Len(ns) THEN <<>>
    ELSE render_node(ns[i]) \o RenderNodes(ns, i + 1)

\* faulty variant: the nodes are drawn before the edges
paint_nodes_first(ns, es) == RenderNodes(ns, 1) \o RenderEdges(es, NodeMap(ns), 1)

\* the paint closure: edges first, then nodes
paint(ns, es) == RenderEdges(es, NodeMap(ns), 1) \o RenderNodes(ns, 1)

\* GraphCanvas::new: no block is modelled, it draws nothing on the canvas
GraphCanvas_new == [live |-> TRUE, x_bounds |-> None, y_bounds |-> None]

\* the canvas after render(self) consumed it, and before new
NoCanvas == [live |-> FALSE, x_bounds |-> None, y_bounds |-> None]

\* faulty variant: the x override applied to both axes
get_bounds_x_for_both(c, ns) ==
    LET auto == calculate_bounds(ns)
        bx == IF c.x_bounds # None THEN c.x_bounds[1] ELSE <<auto[1], auto[2]>>
        by == IF c.x_bounds # None THEN c.x_bounds[1]
              ELSE IF c.y_bounds # None THEN c.y_bounds[1] ELSE <<auto[3], auto[4]>>
    IN  <<bx[1], bx[2], by[1], by[2]>>

get_bounds(c, ns) ==
    LET auto == calculate_bounds(ns)
        bx == IF c.x_bounds # None THEN c.x_bounds[1] ELSE <<auto[1], auto[2]>>
        by == IF c.y_bounds # None THEN c.y_bounds[1] ELSE <<auto[3], auto[4]>>
    IN  <<bx[1], bx[2], by[1], by[2]>>

(***************************************************************************)
(* Operations.  out holds what the last operation returned; every          *)
(* operation overwrites it, so nodes, edges and canvas are still the ones  *)
(* that operation saw.  A GraphCanvas borrows the graph: while one is live *)
(* the graph cannot be mutated, and render(self) consumes it.              *)
(***************************************************************************)
\* the longest node list a graph is grown to
MaxNodes == 3

NoArg == [fn |-> "none"]

\* the longest edge list a graph is grown to
MaxEdges == 2

RECURSIVE FindLast(_, _, _)
FindLast(ns, id, i) ==
    IF i < 1 THEN None
    ELSE IF ns[i].id = id THEN Some(i)
    ELSE FindLast(ns, id, i - 1)

\* faulty variant: the scan runs from the back of the list
find_node_last(ns, id) == FindLast(ns, id, Len(ns))

RECURSIVE FindFirst(_, _, _)
\* Iterator::find: the first element, front to back, the predicate accepts
FindFirst(ns, id, i) ==
    IF i > Len(ns) THEN None
    ELSE IF ns[i].id = id THEN Some(i)
    ELSE FindFirst(ns, id, i + 1)

\* GraphData::find_node: the Option<&GraphNode> is the position, in nodes, of
\* the node the reference points to
find_node(ns, id) == FindFirst(ns, id, 1)

RECURSIVE FilterEdges(_, _, _, _)
\* Iterator::filter(..).collect(): the positions, in edges, of the edges whose
\* endpoint `end` is node_id, in iteration order
FilterEdges(es, end, node_id, i) ==
    IF i > Len(es) THEN <<>>
    ELSE (IF es[i][end] = node_id THEN <<i>> ELSE <<>>)
         \o FilterEdges(es, end, node_id, i + 1)

\* faulty variant: the filter looks at the destination
edges_from_by_destination(es, node_id) == FilterEdges(es, "to", node_id, 1)

\* GraphData::edges_from: the Vec<&GraphEdge> is the list of positions
edges_from(es, node_id) == FilterEdges(es, "from", node_id, 1)

\* GraphData::edges_to
edges_to(es, node_id) == FilterEdges(es, "to", node_id, 1)

\* faulty variant: a node whose id is already present replaces that node
AddNode_replace(n) ==
    /\ ~canvas.live
    /\ Len(nodes) < MaxNodes
    /\ nodes' = IF find_node(nodes, n.id) # None
                THEN [nodes EXCEPT ![find_node(nodes, n.id)[1]] = n]
                ELSE Append(nodes, n)
    /\ arg' = [fn |-> "add_node", node |-> n]
    /\ out' = [op |-> "add_node"]
    /\ UNCHANGED <<edges, canvas>>

\* GraphData::add_node
AddNode(n) ==
    /\ ~canvas.live
    /\ Len(nodes) < MaxNodes
    /\ nodes' = Append(nodes, n)
    /\ arg' = [fn |-> "add_node", node |-> n]
    /\ out' = [op |-> "add_node"]
    /\ UNCHANGED <<edges, canvas>>

\* faulty variant: an edge whose endpoints are not both nodes is dropped
AddEdge_checked(e) ==
    /\ ~canvas.live
    /\ Len(edges) < MaxEdges
    /\ edges' = IF find_node(nodes, e.from) # None /\ find_node(nodes, e.to) # None
                THEN Append(edges, e) ELSE edges
    /\ arg' = [fn |-> "add_edge", edge |-> e]
    /\ out' = [op |-> "add_edge"]
    /\ UNCHANGED <<nodes, canvas>>

\* GraphData::add_edge
AddEdge(e) ==
    /\ ~canvas.live
    /\ Len(edges) < MaxEdges
    /\ edges' = Append(edges, e)
    /\ arg' = [fn |-> "add_edge", edge |-> e]
    /\ out' = [op |-> "add_edge"]
    /\ UNCHANGED <<nodes, canvas>>

\* GraphData::find_node(&self, id)
FindNode(id) ==
    /\ arg' = [fn |-> "find_node", id |-> id]
    /\ out' = [op |-> "find_node", value |-> find_node(nodes, id)]
    /\ UNCHANGED <<nodes, edges, canvas>>

\* GraphData::edges_from(&self, node_id)
EdgesFrom(id) ==
    /\ arg' = [fn |-> "edges_from", id |-> id]
    /\ out' = [op |-> "edges_from", value |-> edges_from(edges, id)]
    /\ UNCHANGED <<nodes, edges, canvas>>

\* GraphData::edges_to(&self, node_id)
EdgesTo(id) ==
    /\ arg' = [fn |-> "edges_to", id |-> id]
    /\ out' = [op |-> "edges_to", value |-> edges_to(edges, id)]
    /\ UNCHANGED <<nodes, edges, canvas>>

\* calculate_bounds(&graph.nodes)
CalculateBounds ==
    /\ out' = [op |-> "calculate_bounds", value |-> calculate_bounds(nodes)]
    /\ UNCHANGED <<nodes, edges, canvas, arg>>

\* GraphCanvas::new(&graph)
NewCanvas ==
    /\ ~canvas.live
    /\ canvas' = GraphCanvas_new
    /\ out' = [op |-> "new"]
    /\ UNCHANGED <<nodes, edges, arg>>

\* GraphCanvas::x_bounds(min, max)
XBounds(min, max) ==
    /\ canvas.live
    /\ canvas' = [canvas EXCEPT !.x_bounds = Some(<<min, max>>)]
    /\ out' = [op |-> "x_bounds"]
    /\ UNCHANGED <<nodes, edges, arg>>

\* GraphCanvas::y_bounds(min, max)
YBounds(min, max) ==
    /\ canvas.live
    /\ canvas' = [canvas EXCEPT !.y_bounds = Some(<<min, max>>)]
    /\ out' = [op |-> "y_bounds"]
    /\ UNCHANGED <<nodes, edges, arg>>

\* GraphCanvas::get_bounds(&self)
GetBounds ==
    /\ canvas.live
    /\ out' = [op |-> "get_bounds", value |-> get_bounds(canvas, nodes)]
    /\ UNCHANGED <<nodes, edges, canvas, arg>>

\* Widget::render(self, area, buf): the viewport handed to the Canvas and the
\* primitives its paint closure draws
Render ==
    /\ canvas.live
    /\ out' = [op |-> "render", viewport |-> get_bounds(canvas, nodes),
               prims |-> paint(nodes, edges)]
    /\ canvas' = NoCanvas
    /\ UNCHANGED <<nodes, edges, arg>>

(***************************************************************************)
(* SpecBounds: graphs of nodes only, with the viewport operations          *)
(***************************************************************************)
BoundsXs == {U(0 - 50), U(0), U(2)}

BoundsYs == {U(0 - 10), U(0)}

BoundsWidths == {U(1), U(8)}

BoundsHeights == {U(4)}

BoundsNodes ==
    {GraphNode("n", x, y, w, h, "Blue", FALSE) :
        x \in BoundsXs, y \in BoundsYs, w \in BoundsWidths, h \in BoundsHeights}

\* overrides: one wide, one narrower than 20 units
XOverrides == {<<U(0 - 50), U(50)>>, <<U(0), U(10)>>}

YOverrides == {<<U(0 - 25), U(25)>>, <<U(0), U(5)>>}

InitBounds ==
    /\ nodes = <<>>
    /\ edges = <<>>
    /\ canvas = NoCanvas
    /\ arg = NoArg
    /\ out = [op |-> "init"]

NextBounds ==
    \/ \E n \in BoundsNodes : AddNode(n)
    \/ CalculateBounds
    \/ NewCanvas
    \/ \E b \in XOverrides : XBounds(b[1], b[2])
    \/ \E b \in YOverrides : YBounds(b[1], b[2])
    \/ GetBounds
    \/ Render

SpecBounds == InitBounds /\ [][NextBounds]_vars

(***************************************************************************)
(* Claims on the viewport (SpecBounds)                                     *)
(***************************************************************************)
ViewWidth(b) == b[2] - b[1]

ViewHeight(b) == b[4] - b[3]

\* C1: calculate_bounds on an empty node sequence returns exactly
\* (0, 100, 0, 100), and get_bounds on an empty graph with no overrides
\* returns the same.
C1_EmptyDefaultViewport ==
    /\ (out.op = "calculate_bounds" /\ nodes = <<>>)
          => out.value = <<0, 100 * Scale, 0, 100 * Scale>>
    /\ (out.op = "get_bounds" /\ nodes = <<>>
        /\ canvas.x_bounds = None /\ canvas.y_bounds = None)
          => out.value = <<0, 100 * Scale, 0, 100 * Scale>>

C1_Witness ==
    /\ out.op = "get_bounds"
    /\ nodes = <<>>
    /\ canvas.x_bounds = None
    /\ canvas.y_bounds = None
    /\ out.value = <<0, 100 * Scale, 0, 100 * Scale>>

C5_Least(S) == CHOOSE m \in S : \A k \in S : m <= k

C5_Greatest(S) == CHOOSE m \in S : \A k \in S : m >= k

C5_ReferenceAxis(lows, highs) ==
    LET lo    == C5_Least(lows)
        hi    == C5_Greatest(highs)
        tenth == (hi - lo) \div 10
        pad   == IF tenth > 5 * Scale THEN tenth ELSE 5 * Scale
        elo   == lo - pad
        ehi   == hi + pad
        mid   == (elo + ehi) \div 2
    IN  IF ehi - elo < 20 * Scale
        THEN <<mid - 10 * Scale, mid + 10 * Scale>>
        ELSE <<elo, ehi>>

\* C5: for a non-empty node sequence calculate_bounds equals the reference,
\* computed per axis: the tight range, expanded at both ends by
\* max(0.1 * range, 5), replaced by 20 units around the same midpoint when
\* still under 20; the x result is a function of the nodes' x and width
\* alone, the y result of their y and height alone.
C5_MatchesPerAxisReference ==
    (out.op = "calculate_bounds" /\ nodes # <<>>)
        => LET I  == 1..Len(nodes)
               rx == C5_ReferenceAxis({nodes[i].x : i \in I},
                                      {nodes[i].x + nodes[i].width : i \in I})
               ry == C5_ReferenceAxis({nodes[i].y : i \in I},
                                      {nodes[i].y + nodes[i].height : i \in I})
           IN  out.value = <<rx[1], rx[2], ry[1], ry[2]>>

\* both branches in one call: x expanded by 10% of a range above 50 and
\* returned unchanged, y (tight range 4) padded by the 5-unit minimum and
\* then replaced by 20 units around its midpoint
C5_Witness ==
    /\ out.op = "calculate_bounds"
    /\ Len(nodes) >= 2
    /\ LET t == TightBounds(nodes)
       IN  /\ t.max_x - t.min_x > 50 * Scale
           /\ out.value[1] < t.min_x - 5 * Scale
           /\ ViewWidth(out.value) > 60 * Scale
           /\ t.max_y - t.min_y = 4 * Scale
           /\ out.value[3] = t.min_y - 8 * Scale
           /\ ViewHeight(out.value) = 20 * Scale

\* C6: get_bounds resolves each axis on its own: the x bounds are the pair
\* given to x_bounds when one was given and the x part of calculate_bounds
\* over the current nodes otherwise, and likewise for y; an override on one
\* axis leaves the other axis as it would be without it.
C6_GetBoundsPerAxis ==
    out.op = "get_bounds"
        => LET auto == calculate_bounds(nodes)
           IN  /\ canvas.x_bounds # None
                    => <<out.value[1], out.value[2]>> = canvas.x_bounds[1]
               /\ canvas.x_bounds = None
                    => <<out.value[1], out.value[2]>> = <<auto[1], auto[2]>>
               /\ canvas.y_bounds # None
                    => <<out.value[3], out.value[4]>> = canvas.y_bounds[1]
               /\ canvas.y_bounds = None
                    => <<out.value[3], out.value[4]>> = <<auto[3], auto[4]>>

\* x overridden, y not, on a graph with nodes
C6_Witness ==
    /\ out.op = "get_bounds"
    /\ nodes # <<>>
    /\ canvas.x_bounds = Some(<<0, 10 * Scale>>)
    /\ canvas.y_bounds = None
    /\ out.value[1] = 0
    /\ out.value[2] = 10 * Scale
    /\ ViewHeight(out.value) >= 20 * Scale

(***************************************************************************)
(* SpecEdge: one call of render_edge on an edge and a node lookup          *)
(***************************************************************************)
\* render_edge(ctx, edge, nodes): the primitives the call draws on ctx
RenderEdge ==
    /\ arg.fn = "render_edge"
    /\ out' = [op |-> "render_edge", prims |-> render_edge(arg.edge, arg.map)]
    /\ UNCHANGED <<nodes, edges, canvas, arg>>

EdgeSizes == {<<U(8), U(4)>>, <<U(2), U(2)>>}

\* the centre of every node with id "a": that of a default node at the origin
EdgeCentreA == <<U(4), U(2)>>

\* where the centre of a node with id "b" lies, relative to EdgeCentreA, in
\* grid steps: the same point, 0.0005 and 0.0007 away, exactly 0.001 away,
\* and 3, 4, 10, 12 and 6 units away along 3-4-5 and axis directions
EdgeDeltas ==
    { <<0, 0>>, <<1, 0>>, <<1, 1>>, <<2, 0>>,
      <<(18 * Scale) \div 10, (24 * Scale) \div 10>>,
      <<(24 * Scale) \div 10, (32 * Scale) \div 10>>,
      <<U(6), U(8)>>, <<U(12), 0>>, <<U(0 - 12), 0>>, <<0, U(0 - 6)>> }

NodeCentredAt(id, cx, cy, size) ==
    GraphNode(id, cx - Half(size[1]), cy - Half(size[2]), size[1], size[2],
              "Blue", FALSE)

EdgeNodesA == {NodeCentredAt("a", EdgeCentreA[1], EdgeCentreA[2], s) : s \in EdgeSizes}

EdgeNodesB ==
    {NodeCentredAt("b", EdgeCentreA[1] + d[1], EdgeCentreA[2] + d[2], s) :
        d \in EdgeDeltas, s \in EdgeSizes}

\* the lookups: any subset of the ids a and b, each id keyed to a node
\* that carries it
EdgeMaps ==
    {<<>>}
    \cup {[k \in {"a"} |-> na] : na \in EdgeNodesA}
    \cup {[k \in {"b"} |-> nb] : nb \in EdgeNodesB}
    \cup {[k \in {"a", "b"} |-> IF k = "a" THEN na ELSE nb] :
            na \in EdgeNodesA, nb \in EdgeNodesB}

\* "z" is an id no lookup holds
EdgeChoices ==
    {GraphEdge(f, t, c, l) :
        f \in {"a", "b", "z"}, t \in {"a", "b", "z"},
        c \in {"Cyan", "Red"}, l \in {None, Some("100 ev/s"), Some("")}}

InitEdge ==
    /\ nodes = <<>>
    /\ edges = <<>>
    /\ canvas = NoCanvas
    /\ arg \in {[fn |-> "render_edge", edge |-> e, map |-> m] :
                  e \in EdgeChoices, m \in EdgeMaps}
    /\ out = [op |-> "init"]

NextEdge == RenderEdge

SpecEdge == InitEdge /\ [][NextEdge]_vars

(***************************************************************************)
(* SpecNode: one call of a free function of node.rs                        *)
(***************************************************************************)
\* point_in_node(node, x, y)
PointInNode ==
    /\ arg.fn = "point_in_node"
    /\ out' = [op |-> "point_in_node",
               value |-> point_in_node(arg.node, arg.x, arg.y)]
    /\ UNCHANGED <<nodes, edges, canvas, arg>>

HitNodes == { GraphNode("test", 0, 0, U(10), U(10), "Blue", FALSE),
              GraphNode_new("test", U(10), U(20)) }

\* probe offsets along one axis of a node of extent e: 0.1 before, one grid
\* step (0.0005) before, on the low edge, one step inside, the middle, one
\* step before the high edge, on it, one step beyond, 0.1 beyond
HitOffsets(e) ==
    {0 - Scale \div 10, 0 - 1, 0, 1, Half(e), e - 1, e, e + 1, e + Scale \div 10}

InitNode ==
    /\ nodes = <<>>
    /\ edges = <<>>
    /\ canvas = NoCanvas
    /\ arg \in {[fn |-> "point_in_node", node |-> n, x |-> n.x + ox, y |-> n.y + oy] :
                  n \in HitNodes, ox \in HitOffsets(U(10)) \cup HitOffsets(U(8)),
                  oy \in HitOffsets(U(10)) \cup HitOffsets(U(4))}
    /\ out = [op |-> "init"]

NextNode == PointInNode

SpecNode == InitNode /\ [][NextNode]_vars

(***************************************************************************)
(* Claims on render_edge (SpecEdge)                                        *)
(***************************************************************************)
\* C7: render_edge on an edge whose source id or destination id is absent
\* from the node lookup emits no primitive at all (and is defined there).
C7_MissingEndpointEmitsNothing ==
    (/\ out.op = "render_edge"
     /\ \/ arg.edge.from \notin DOMAIN arg.map
        \/ arg.edge.to \notin DOMAIN arg.map)
        => out.prims = <<>>

\* the source is in the lookup, well away from the origin, the destination is not
C7_Witness ==
    /\ out.op = "render_edge"
    /\ arg.edge.from = "b"
    /\ "b" \in DOMAIN arg.map
    /\ arg.map["b"].x = 12 * Scale
    /\ arg.edge.to = "z"
    /\ arg.edge.label # None
    /\ out.prims = <<>>

\* the squared distance between the centres of two nodes
C8_DistSq(m, n) ==
    LET dx == (n.x + n.width \div 2) - (m.x + m.width \div 2)
        dy == (n.y + n.height \div 2) - (m.y + m.height \div 2)
    IN  dx * dx + dy * dy

\* C8: with both endpoints in the lookup, render_edge emits nothing when the
\* two centres are less than 0.001 apart (so whenever both ids resolve to the
\* same node) and draws the edge whenever they are 0.001 or more apart; what
\* is drawn never comes from a zero length.
C8_DegenerateEdgeSkipped ==
    (/\ out.op = "render_edge"
     /\ arg.edge.from \in DOMAIN arg.map
     /\ arg.edge.to \in DOMAIN arg.map)
        => LET d2  == C8_DistSq(arg.map[arg.edge.from], arg.map[arg.edge.to])
               eps == Scale \div 1000
           IN  /\ d2 < eps * eps => out.prims = <<>>
               /\ d2 >= eps * eps => out.prims # <<>>
               /\ arg.edge.from = arg.edge.to => out.prims = <<>>
               /\ out.prims # <<>> => d2 > 0

\* two distinct nodes whose centres are 0.0005 apart: nothing is drawn
C8_Witness ==
    /\ out.op = "render_edge"
    /\ arg.edge.from = "a"
    /\ arg.edge.to = "b"
    /\ DOMAIN arg.map = {"a", "b"}
    /\ C8_DistSq(arg.map["a"], arg.map["b"]) = 1
    /\ out.prims = <<>>

\* strictly inside the rectangle of a node
C9_InsideBody(n, x, y) ==
    /\ n.x < x
    /\ x < n.x + n.width
    /\ n.y < y
    /\ y < n.y + n.height

\* C9: for every rendered edge neither end of the drawn main segment lies
\* inside the rectangle of the source node or of the destination node.
C9_SegmentStopsOutsideNodes ==
    (out.op = "render_edge" /\ out.prims # <<>>)
        => LET line == out.prims[1]
           IN  \A n \in {arg.map[arg.edge.from], arg.map[arg.edge.to]} :
                  /\ ~C9_InsideBody(n, line.x1, line.y1)
                  /\ ~C9_InsideBody(n, line.x2, line.y2)

(***************************************************************************)
(* Claims on node.rs (SpecNode)                                            *)
(***************************************************************************)
\* C10: point_in_node(node, x, y) is true exactly when the point is in the
\* closed rectangle: the four edges and corners are inside, and a point
\* beyond any edge, by however little, is outside.
C10_PointInClosedRectangle ==
    out.op = "point_in_node"
        => LET n == arg.node
               beyond == \/ arg.x < n.x
                         \/ arg.x > n.x + n.width
                         \/ arg.y < n.y
                         \/ arg.y > n.y + n.height
           IN  out.value = ~beyond

\* the far corner of the rectangle is inside
C10_Witness ==
    /\ out.op = "point_in_node"
    /\ arg.x = arg.node.x + arg.node.width
    /\ arg.y = arg.node.y + arg.node.height
    /\ out.value = TRUE

(***************************************************************************)
(* SpecArrow: one call of calculate_arrow_points                           *)
(***************************************************************************)
\* calculate_arrow_points(tip_x, tip_y, ux, uy, size)
CalculateArrowPoints ==
    /\ arg.fn = "calculate_arrow_points"
    /\ out' = [op |-> "calculate_arrow_points",
               value |-> calculate_arrow_points(arg.tip_x, arg.tip_y,
                                                arg.ux, arg.uy, arg.size)]
    /\ UNCHANGED <<nodes, edges, canvas, arg>>

ArrowTips == { <<0, 0>>, <<U(10), U(5)>>, <<U(0 - 3), U(7)>> }

\* unit vectors: the four axis directions and 3-4-5 directions in each quadrant
ArrowDirections ==
    { <<Scale, 0>>, <<0, Scale>>, <<0 - Scale, 0>>, <<0, 0 - Scale>>,
      <<(6 * Scale) \div 10, (8 * Scale) \div 10>>,
      <<(8 * Scale) \div 10, (6 * Scale) \div 10>>,
      <<0 - (6 * Scale) \div 10, (8 * Scale) \div 10>>,
      <<(6 * Scale) \div 10, 0 - (8 * Scale) \div 10>>,
      <<0 - (8 * Scale) \div 10, 0 - (6 * Scale) \div 10>> }

\* 1.0, 1.5, 2.0 and 3.0
ArrowSizes == { U(1), (3 * Scale) \div 2, U(2), U(3) }

InitArrow ==
    /\ nodes = <<>>
    /\ edges = <<>>
    /\ canvas = NoCanvas
    /\ arg \in {[fn |-> "calculate_arrow_points", tip_x |-> t[1], tip_y |-> t[2],
                 ux |-> u[1], uy |-> u[2], size |-> z] :
                  t \in ArrowTips, u \in ArrowDirections, z \in ArrowSizes}
    /\ out = [op |-> "init"]

NextArrow == CalculateArrowPoints

SpecArrow == InitArrow /\ [][NextArrow]_vars

(***************************************************************************)
(* Claims on calculate_arrow_points (SpecArrow)                            *)
(***************************************************************************)
\* (p - tip) . (ux, uy), in grid steps squared
C11_Along(p) == (p[1] - arg.tip_x) * arg.ux + (p[2] - arg.tip_y) * arg.uy

\* (p - tip) . (uy, -ux): the signed offset across the direction line
C11_Across(p) == (p[1] - arg.tip_x) * arg.uy - (p[2] - arg.tip_y) * arg.ux

\* C11: for a unit direction and size > 0 both base points lie behind the
\* tip, at projection -size along the direction (for direction (1, 0) both
\* base x are below the tip x), and they mirror each other across the line
\* through the tip along the direction: offsets +size/2 and -size/2.
C11_BasePointsBehindAndMirrored ==
    (out.op = "calculate_arrow_points" /\ arg.size > 0)
        => /\ C11_Along(out.value[1]) = 0 - arg.size * Scale
           /\ C11_Along(out.value[2]) = 0 - arg.size * Scale
           /\ C11_Across(out.value[1]) = (arg.size \div 2) * Scale
           /\ C11_Across(out.value[2]) = 0 - (arg.size \div 2) * Scale
           /\ (arg.ux = Scale /\ arg.uy = 0)
                => /\ out.value[1][1] < arg.tip_x
                   /\ out.value[2][1] < arg.tip_x

\* a diagonal direction pointing down-left, size 1.5
C11_Witness ==
    /\ out.op = "calculate_arrow_points"
    /\ arg.ux < 0
    /\ arg.uy < 0
    /\ arg.size = (3 * Scale) \div 2
    /\ out.value[1] # out.value[2]
    /\ out.value[1][1] > arg.tip_x
    /\ out.value[2][2] > arg.tip_y

C12_DistSq(p) ==
    (p[1] - arg.tip_x) * (p[1] - arg.tip_x) + (p[2] - arg.tip_y) * (p[2] - arg.tip_y)

\* C12: for the same tip and unit direction the distance from the tip to
\* each base point at 2 * size is strictly greater than at size.
C12_DistanceGrowsWithSize ==
    (out.op = "calculate_arrow_points" /\ arg.size > 0)
        => LET big == calculate_arrow_points(arg.tip_x, arg.tip_y, arg.ux, arg.uy,
                                             2 * arg.size)
           IN  /\ C12_DistSq(big[1]) > C12_DistSq(out.value[1])
               /\ C12_DistSq(big[2]) > C12_DistSq(out.value[2])

\* the case of test_arrow_size_scaling: tip (10, 5), direction (1, 0), size 1
C12_Witness ==
    /\ out.op = "calculate_arrow_points"
    /\ arg.tip_x = 10 * Scale
    /\ arg.ux = Scale
    /\ arg.uy = 0
    /\ arg.size = Scale
    /\ out.value[1][1] = 9 * Scale

(***************************************************************************)
(* Spec: a graph is grown with add_node and add_edge, queried, and         *)
(* rendered any number of times                                            *)
(***************************************************************************)
\* two nodes that share the id "a" and stand at different places, and a node
\* "b" that stands where the first of them does
GraphNodes ==
    { GraphNode_new("a", U(0), U(0)),
      GraphNode_new("a", U(12), U(0)),
      GraphNode_new("b", U(0), U(0)) }

\* "z" is never the id of a node and never the source of an edge
GraphEdges ==
    { GraphEdge_new("a", "b"),
      GraphEdge("a", "b", "Red", Some("calls")),
      GraphEdge_new("b", "a"),
      GraphEdge_new("a", "z") }

QueryIds == {"a", "b", "z"}

Init ==
    /\ nodes = <<>>
    /\ edges = <<>>
    /\ canvas = NoCanvas
    /\ arg = NoArg
    /\ out = [op |-> "init"]

Next ==
    \/ \E n \in GraphNodes : AddNode(n)
    \/ \E e \in GraphEdges : AddEdge(e)
    \/ \E id \in QueryIds : FindNode(id)
    \/ \E id \in QueryIds : EdgesFrom(id)
    \/ \E id \in QueryIds : EdgesTo(id)
    \/ NewCanvas
    \/ Render

Spec == Init /\ [][Next]_vars
(***************************************************************************)
(* Claims on the graph model and on one render pass (Spec)                 *)
(***************************************************************************)
C13_Matches == {i \in DOMAIN nodes : nodes[i].id = arg.id}

\* C13: find_node(id) returns the first node, in insertion order, whose id is
\* id, and none when no node has that id; when several nodes share the id the
\* later ones are never returned.
C13_FindNodeFirstMatch ==
    out.op = "find_node" =>
        IF C13_Matches = {} THEN out.value = None
        ELSE /\ out.value # None
             /\ out.value[1] \in C13_Matches
             /\ \A j \in C13_Matches : out.value[1] <= j

C13_Witness ==
    /\ out.op = "find_node"
    /\ Cardinality(C13_Matches) >= 2
    /\ out.value # None
    /\ \E j \in C13_Matches : nodes[j] # nodes[out.value[1]]

\* the lookup the claim describes: every id resolves to the node find_node
\* returns for it
C14_FirstMatchMap(ns) ==
    [id \in {ns[i].id : i \in DOMAIN ns} |-> ns[find_node(ns, id)[1]]]

\* C14: during a render an edge endpoint that references an id several nodes
\* share is resolved to the first such node in insertion order, the node
\* find_node returns: the pass draws what a first-match lookup would draw.
C14_RenderResolvesFirstMatch ==
    out.op = "render" =>
        out.prims = RenderEdges(edges, C14_FirstMatchMap(nodes), 1)
                    \o RenderNodes(nodes, 1)

C15_Strict(seq) == \A i, j \in DOMAIN seq : i < j => seq[i] < seq[j]

C15_Range(seq) == {seq[i] : i \in DOMAIN seq}

\* C15: edges_from(id) returns exactly the edges whose source is id and
\* edges_to(id) exactly the edges whose destination is id, in insertion order
\* and with parallel duplicates kept; an id no edge references yields an empty
\* result; the id need not name a node.
C15_EdgesFromToExact ==
    /\ out.op = "edges_from" =>
           /\ C15_Strict(out.value)
           /\ C15_Range(out.value) = {i \in DOMAIN edges : edges[i].from = arg.id}
    /\ out.op = "edges_to" =>
           /\ C15_Strict(out.value)
           /\ C15_Range(out.value) = {i \in DOMAIN edges : edges[i].to = arg.id}

C15_Witness ==
    /\ out.op = "edges_from"
    /\ Len(edges) = 2
    /\ edges[1] = edges[2]
    /\ out.value = <<1, 2>>
    /\ \A i \in DOMAIN nodes : nodes[i].id # arg.id

\* C16: starting from the empty graph, every add_node appends its node to
\* nodes and leaves edges alone, every add_edge appends its edge to edges and
\* leaves nodes alone, nothing is rejected or replaced, and no other operation
\* changes either list: nodes and edges are the added elements in call order.
C16_AddAppendsInCallOrder ==
    /\ nodes = <<>> /\ edges = <<>>
    /\ [][ /\ out'.op = "add_node" =>
                  nodes' = Append(nodes, arg'.node) /\ edges' = edges
           /\ out'.op = "add_edge" =>
                  edges' = Append(edges, arg'.edge) /\ nodes' = nodes
           /\ out'.op \notin {"add_node", "add_edge"} =>
                  nodes' = nodes /\ edges' = edges ]_vars

C16_Witness ==
    /\ out.op = "add_node"
    /\ Len(nodes) = 3
    /\ nodes[3] = arg.node
    /\ nodes[1].id = nodes[3].id
    /\ Len(edges) = 2
    /\ edges[1] = edges[2]

\* what the pass draws for the edge at position i, and for the node at j
C17_EdgePrims(i) == render_edge(edges[i], NodeMap(nodes))

C17_NodePrims(j) == render_node(nodes[j])

RECURSIVE C17_EdgeOffset(_)
C17_EdgeOffset(i) ==
    IF i = 1 THEN 0 ELSE C17_EdgeOffset(i - 1) + Len(C17_EdgePrims(i - 1))

RECURSIVE C17_NodeOffset(_)
C17_NodeOffset(j) ==
    IF j = 1 THEN C17_EdgeOffset(Len(edges) + 1)
    ELSE C17_NodeOffset(j - 1) + Len(C17_NodePrims(j - 1))

C17_Slice(seq, offset, len) == [k \in 1..len |-> seq[offset + k]]

\* C17: the primitives of one render pass are those of every edge, in edge
\* insertion order and one set per edge, followed by those of every node in
\* node insertion order; no node primitive comes before an edge primitive.
C17_EdgesThenNodesInOrder ==
    out.op = "render" =>
        /\ Len(out.prims) = C17_NodeOffset(Len(nodes) + 1)
        /\ \A i \in DOMAIN edges :
               C17_Slice(out.prims, C17_EdgeOffset(i), Len(C17_EdgePrims(i)))
                   = C17_EdgePrims(i)
        /\ \A j \in DOMAIN nodes :
               /\ C17_NodeOffset(j) >= C17_EdgeOffset(Len(edges) + 1)
               /\ C17_Slice(out.prims, C17_NodeOffset(j), Len(C17_NodePrims(j)))
                      = C17_NodePrims(j)

C17_Witness ==
    /\ out.op = "render"
    /\ Len(edges) = 2
    /\ edges[1] = edges[2]
    /\ C17_EdgePrims(1) # <<>>
    /\ Len(nodes) >= 2
    /\ Len(out.prims) = 2 * Len(C17_EdgePrims(1)) + 2 * Len(nodes)

C18_Present(id) == \E i \in DOMAIN nodes : nodes[i].id = id

C18_Dangling(e) == ~C18_Present(e.from) \/ ~C18_Present(e.to)

C18_NotDangling(e) == ~C18_Dangling(e)

\* every node an endpoint of e can name has a centre apart from every node the
\* other endpoint can name
C18_DistinctCentres(e) ==
    \A i, j \in DOMAIN nodes :
        nodes[i].id = e.from /\ nodes[j].id = e.to =>
            calculate_node_center(nodes[i]) # calculate_node_center(nodes[j])

C18_Drawn(e) ==
    \E k \in 0..Len(out.prims) :
        /\ k + 1 \in DOMAIN out.prims
        /\ out.prims[k + 1].kind = "line"
        /\ out.prims[k + 1].color = e.color
        /\ \E i, j \in DOMAIN nodes :
               /\ nodes[i].id = e.from /\ nodes[j].id = e.to
               /\ draw_edge(e, nodes[i], nodes[j])
                      = C17_Slice(out.prims, k, Len(draw_edge(e, nodes[i], nodes[j])))

\* C18: add_edge accepts an edge whose endpoints name no node; a render made
\* while an endpoint is absent draws exactly what it would draw without that
\* edge, so the edge emits nothing and every other edge and every node is
\* drawn; a render made once both endpoints are nodes, with distinct centres,
\* draws the edge.
C18_DanglingEdgeTolerated ==
    /\ [](out.op = "render" =>
            /\ out.prims = paint(nodes, SelectSeq(edges, C18_NotDangling))
            /\ \A i \in DOMAIN edges :
                   C18_NotDangling(edges[i]) /\ C18_DistinctCentres(edges[i])
                       => C18_Drawn(edges[i]))
    /\ [][ out'.op = "add_edge" =>
               edges' = Append(edges, arg'.edge) ]_vars

C18_Witness ==
    /\ out.op = "render"
    /\ Len(edges) = 2
    /\ C18_Dangling(edges[1])
    /\ C18_NotDangling(edges[2])
    /\ C18_DistinctCentres(edges[2])
    /\ C18_Drawn(edges[2])
    /\ Len(nodes) >= 2
(***************************************************************************)
(* formatting/numbers.rs, formatting/bytes.rs.  Strings are strings.  The  *)
(* inputs are u64 in the code and stay below 2^31 here.  n as f64 is exact *)
(* below 2^53; the quotient by a power of two is exact, the quotient by a  *)
(* power of ten is the nearest f64, which rounds to the same hundredth as  *)
(* the exact quotient unless that quotient is midway between two           *)
(* hundredths: those inputs are left out of NumberInputs.                  *)
(***************************************************************************)
RECURSIVE TimesOver(_, _, _, _)
\* <<(k * r) \div d, (k * r) % d>> added up from <<q, m>> for 0 <= r < d, with
\* no product formed
TimesOver(k, r, d, qm) ==
    IF k = 0 THEN qm
    ELSE LET m == qm[2] + r
         IN  TimesOver(k - 1, r, d,
                       IF m >= d THEN <<qm[1] + 1, m - d>> ELSE <<qm[1], m>>)

\* n / d in hundredths, to the nearest, an exact half going to the even one
Hundredths(n, d) ==
    LET tenths == TimesOver(10, n % d, d, <<0, 0>>)
        fm == TimesOver(10, tenths[2], d, <<0, 0>>)
        f  == (n \div d) * 100 + tenths[1] * 10 + fm[1]
        up == 2 * fm[2] > d \/ (2 * fm[2] = d /\ f % 2 = 1)
    IN  IF up THEN f + 1 ELSE f

TwoDigits(k) == IF k < 10 THEN "0" \o ToString(k) ELSE ToString(k)

\* format!("{:.2}", n as f64 / d as f64)
TwoDecimals(n, d) ==
    LET h == Hundredths(n, d)
    IN  ToString(h \div 100) \o "." \o TwoDigits(h % 100)

\* faulty variant: a value that rounds to 1000.00 moves on to the next unit
format_number_unit_after_rounding(n) ==
    IF n >= 1000000000 THEN TwoDecimals(n, 1000000000) \o "B"
    ELSE IF n >= 1000000
         THEN IF Hundredths(n, 1000000) >= 100000
              THEN TwoDecimals(n, 1000000000) \o "B"
              ELSE TwoDecimals(n, 1000000) \o "M"
    ELSE IF n >= 1000
         THEN IF Hundredths(n, 1000) >= 100000
              THEN TwoDecimals(n, 1000000) \o "M"
              ELSE TwoDecimals(n, 1000) \o "K"
    ELSE ToString(n)

format_number(n) ==
    IF n >= 1000000000 THEN TwoDecimals(n, 1000000000) \o "B"
    ELSE IF n >= 1000000 THEN TwoDecimals(n, 1000000) \o "M"
    ELSE IF n >= 1000 THEN TwoDecimals(n, 1000) \o "K"
    ELSE ToString(n)

KB == 1024

MB == KB * 1024

GB == MB * 1024

\* faulty variant: a count equal to a threshold stays in the smaller unit
format_bytes_exclusive_thresholds(bytes) ==
    IF bytes > GB THEN TwoDecimals(bytes, GB) \o " GB"
    ELSE IF bytes > MB THEN TwoDecimals(bytes, MB) \o " MB"
    ELSE IF bytes > KB THEN TwoDecimals(bytes, KB) \o " KB"
    ELSE ToString(bytes) \o " B"

format_bytes(bytes) ==
    IF bytes >= GB THEN TwoDecimals(bytes, GB) \o " GB"
    ELSE IF bytes >= MB THEN TwoDecimals(bytes, MB) \o " MB"
    ELSE IF bytes >= KB THEN TwoDecimals(bytes, KB) \o " KB"
    ELSE ToString(bytes) \o " B"

(***************************************************************************)
(* SpecFormat: one call of format_number or of format_bytes                *)
(***************************************************************************)
\* format_number(n)
FormatNumber ==
    /\ arg.fn = "format_number"
    /\ out' = [op |-> "format_number", value |-> format_number(arg.n)]
    /\ UNCHANGED <<nodes, edges, canvas, arg>>

\* format_bytes(bytes)
FormatBytes ==
    /\ arg.fn = "format_bytes"
    /\ out' = [op |-> "format_bytes", value |-> format_bytes(arg.bytes)]
    /\ UNCHANGED <<nodes, edges, canvas, arg>>

\* the divisor format_number applies to n
NumberUnit(n) ==
    IF n >= 1000000000 THEN 1000000000
    ELSE IF n >= 1000000 THEN 1000000
    ELSE IF n >= 1000 THEN 1000
    ELSE 1

\* n / NumberUnit(n) is exactly midway between two hundredths
NumberMidway(n) == n >= 1000 /\ 2 * (n % (NumberUnit(n) \div 100)) = NumberUnit(n) \div 100

\* every value around each threshold, the documented examples, the largest 32-bit value
NumberInputs ==
    { n \in (0 .. 1100) \cup (999900 .. 1000100) \cup (999999900 .. 1000000100)
            \cup {1500, 12345, 999994, 1234567, 2500000, 123456789,
                  1994999999, 2147483647} : ~NumberMidway(n) }

BytesInputs ==
    (0 .. 1100) \cup (MB - 100 .. MB + 100) \cup (GB - 100 .. GB + 100)
        \cup {1152, 1536, 2048, 5242880, 1610612736, 2147483647}

InitFormat ==
    /\ nodes = <<>>
    /\ edges = <<>>
    /\ canvas = NoCanvas
    /\ arg \in {[fn |-> "format_number", n |-> n] : n \in NumberInputs}
               \cup {[fn |-> "format_bytes", bytes |-> b] : b \in BytesInputs}
    /\ out = [op |-> "init"]

NextFormat ==
    \/ FormatNumber
    \/ FormatBytes

SpecFormat == InitFormat /\ [][NextFormat]_vars

(***************************************************************************)
(* Claims on format_number and format_bytes (SpecFormat)                   *)
(***************************************************************************)
\* h hundredths written with two decimals
C19_Show(h) == ToString(h \div 100) \o "." \o TwoDigits(h % 100)

\* value is n / (100 * u) rounded to two decimals, followed by unit: it shows
\* a number of hundredths within half a hundredth of the quotient
C19_Rounded(value, n, u, unit) ==
    LET below == n \div u
        over  == n % u
    IN  \/ 2 * over <= u /\ value = C19_Show(below) \o unit
        \/ 2 * (u - over) <= u /\ value = C19_Show(below + 1) \o unit

\* C19: format_number chooses the unit from n alone: plain digits below 1000,
\* n/1000 to two decimals with K below 10^6, n/10^6 with M below 10^9, n/10^9
\* with B from 10^9 on; the unit is not chosen again after rounding, so
\* 999_999 is 1000.00K and 999_999_999 is 1000.00M.
C19_UnitFromInputAlone ==
    out.op = "format_number" =>
        LET n == arg.n
        IN  /\ n < 1000 => out.value = ToString(n)
            /\ n >= 1000 /\ n < 1000000 => C19_Rounded(out.value, n, 10, "K")
            /\ n >= 1000000 /\ n < 1000000000 => C19_Rounded(out.value, n, 10000, "M")
            /\ n >= 1000000000 => C19_Rounded(out.value, n, 10000000, "B")
            /\ n = 999 => out.value = "999"
            /\ n = 1500 => out.value = "1.50K"
            /\ n = 2500000 => out.value = "2.50M"
            /\ n = 999999 => out.value = "1000.00K"
            /\ n = 999999999 => out.value = "1000.00M"

C19_Witness ==
    /\ out.op = "format_number"
    /\ arg.n = 999999999
    /\ out.value = "1000.00M"

\* C20: format_bytes uses binary thresholds: below 1024 the count and " B",
\* below 1024^2 b/1024 to two decimals and " KB", below 1024^3 " MB", from
\* 1024^3 on " GB" and no larger unit; 1023 is "1023 B" and 1024 "1.00 KB".
C20_BinaryThresholds ==
    out.op = "format_bytes" =>
        LET b == arg.bytes
        IN  /\ b < 1024 => out.value = ToString(b) \o " B"
            /\ b >= 1024 /\ b < 1024 * 1024 =>
                   out.value = TwoDecimals(b, 1024) \o " KB"
            /\ b >= 1024 * 1024 /\ b < 1024 * 1024 * 1024 =>
                   out.value = TwoDecimals(b, 1024 * 1024) \o " MB"
            /\ b >= 1024 * 1024 * 1024 =>
                   out.value = TwoDecimals(b, 1024 * 1024 * 1024) \o " GB"
            /\ b = 1023 => out.value = "1023 B"
            /\ b = 1024 => out.value = "1.00 KB"
            /\ b = 1536 => out.value = "1.50 KB"
            /\ b = 1024 * 1024 - 1 => out.value = "1024.00 KB"
            /\ b = 1024 * 1024 => out.value = "1.00 MB"
            /\ b = 5242880 => out.value = "5.00 MB"
            /\ b = 1024 * 1024 * 1024 - 1 => out.value = "1024.00 MB"
            /\ b = 1024 * 1024 * 1024 => out.value = "1.00 GB"
            /\ b = 1610612736 => out.value = "1.50 GB"

C20_Witness ==
    /\ out.op = "format_bytes"
    /\ arg.bytes = 1024
    /\ out.value = "1.00 KB"

(***************************************************************************)
(* formatting/time.rs: format_duration.  A Duration is its whole seconds   *)
(* and its nanoseconds below one second.                                   *)
(***************************************************************************)
\* Duration::from_secs
Duration_from_secs(secs) == [secs |-> secs, nanos |-> 0]

\* Duration::as_secs: the whole seconds, the nanoseconds dropped
as_secs(duration) == duration.secs

\* faulty variant: a unit that is zero is left out
format_duration_omit_zero(duration) ==
    LET secs    == as_secs(duration)
        hours   == secs \div 3600
        minutes == (secs % 3600) \div 60
        seconds == secs % 60
        h == IF hours > 0 THEN ToString(hours) \o "h" ELSE ""
        m == IF minutes > 0 THEN ToString(minutes) \o "m" ELSE ""
        s == IF seconds > 0 \/ (hours = 0 /\ minutes = 0)
             THEN ToString(seconds) \o "s" ELSE ""
        hm == IF h # "" /\ m # "" THEN h \o " " \o m ELSE h \o m
    IN  IF hm # "" /\ s # "" THEN hm \o " " \o s ELSE hm \o s

format_duration(duration) ==
    LET secs    == as_secs(duration)
        hours   == secs \div 3600
        minutes == (secs % 3600) \div 60
        seconds == secs % 60
    IN  IF hours > 0
        THEN ToString(hours) \o "h " \o ToString(minutes) \o "m "
                 \o ToString(seconds) \o "s"
        ELSE IF minutes > 0
        THEN ToString(minutes) \o "m " \o ToString(seconds) \o "s"
        ELSE ToString(seconds) \o "s"

(***************************************************************************)
(* SpecDuration: one call of format_duration                               *)
(***************************************************************************)
\* format_duration(duration)
FormatDuration ==
    /\ arg.fn = "format_duration"
    /\ out' = [op |-> "format_duration", value |-> format_duration(arg.duration)]
    /\ UNCHANGED <<nodes, edges, canvas, arg>>

\* around one minute, one hour, one day and two days; the documented examples
DurationSeconds ==
    (0 .. 130) \cup (3590 .. 3670) \cup (7190 .. 7210) \cup (86390 .. 86410)
        \cup {312, 9045, 172800, 176461, 2147483647}

DurationNanos == {0, 999999999}

InitDuration ==
    /\ nodes = <<>>
    /\ edges = <<>>
    /\ canvas = NoCanvas
    /\ arg \in {[fn |-> "format_duration", duration |-> [secs |-> s, nanos |-> ns]] :
                  s \in DurationSeconds, ns \in DurationNanos}
    /\ out = [op |-> "init"]

NextDuration == FormatDuration

SpecDuration == InitDuration /\ [][NextDuration]_vars

(***************************************************************************)
(* Claims on format_duration (SpecDuration)                                *)
(***************************************************************************)
\* C21: format_duration of s whole seconds prints the h, m < 60 and sec < 60
\* with h*3600 + m*60 + sec = s: "Hh Mm Ss" when h > 0, "Mm Ss" when h = 0 and
\* m > 0, "Ss" otherwise; hours are never folded into days and a zero minute
\* or second is printed once a larger unit is shown.
C21_HoursMinutesSeconds ==
    out.op = "format_duration" =>
        LET s == arg.duration.secs
        IN  /\ \E m, sec \in 0 .. 59 :
                   /\ s - m * 60 - sec >= 0
                   /\ (s - m * 60 - sec) % 3600 = 0
                   /\ LET h == (s - m * 60 - sec) \div 3600
                      IN  out.value =
                            IF h > 0
                            THEN ToString(h) \o "h " \o ToString(m) \o "m "
                                     \o ToString(sec) \o "s"
                            ELSE IF m > 0
                            THEN ToString(m) \o "m " \o ToString(sec) \o "s"
                            ELSE ToString(sec) \o "s"
            /\ s = 90 => out.value = "1m 30s"
            /\ s = 3661 => out.value = "1h 1m 1s"
            /\ s = 3600 => out.value = "1h 0m 0s"
            /\ s = 86400 => out.value = "24h 0m 0s"

C21_Witness ==
    /\ out.op = "format_duration"
    /\ arg.duration.secs = 86400
    /\ out.value = "24h 0m 0s"

(***************************************************************************)
(* SpecColor: one call of get_node_color                                   *)
(***************************************************************************)
\* get_node_color(&node, is_error, is_warning)
GetNodeColor ==
    /\ arg.fn = "get_node_color"
    /\ out' = [op |-> "get_node_color",
               value |-> get_node_color(arg.node, arg.is_error, arg.is_warning)]
    /\ UNCHANGED <<nodes, edges, canvas, arg>>

ColorChoices == {"Blue", "Red", "Yellow", "Green", "Cyan", "Magenta", "White"}

ColorNodes ==
    {GraphNode("n", U(0), U(0), U(8), U(4), c, sel) :
        c \in ColorChoices, sel \in BOOLEAN}

InitColor ==
    /\ nodes = <<>>
    /\ edges = <<>>
    /\ canvas = NoCanvas
    /\ arg \in {[fn |-> "get_node_color", node |-> n, is_error |-> e, is_warning |-> w] :
                  n \in ColorNodes, e \in BOOLEAN, w \in BOOLEAN}
    /\ out = [op |-> "init"]

NextColor == GetNodeColor

SpecColor == InitColor /\ [][NextColor]_vars

(***************************************************************************)
(* Claims on get_node_color (SpecColor)                                    *)
(***************************************************************************)
\* C22: get_node_color resolves by strict priority: Red when is_error,
\* whatever is_warning and the selection are; else Yellow when is_warning;
\* else Green when the node is selected; else the node's own color.
C22_StrictPriority ==
    out.op = "get_node_color" =>
        /\ arg.is_error => out.value = "Red"
        /\ ~arg.is_error /\ arg.is_warning => out.value = "Yellow"
        /\ ~arg.is_error /\ ~arg.is_warning /\ arg.node.selected =>
               out.value = "Green"
        /\ ~arg.is_error /\ ~arg.is_warning /\ ~arg.node.selected =>
               out.value = arg.node.color

C22_Witness ==
    /\ out.op = "get_node_color"
    /\ arg.is_error /\ arg.is_warning /\ arg.node.selected
    /\ arg.node.color = "Blue"
    /\ out.value = "Red"

(***************************************************************************)
(* SpecRenderNode: one call of render_node                                 *)
(***************************************************************************)
\* render_node(ctx, &node): the primitives drawn on ctx, in order
RenderNode ==
    /\ arg.fn = "render_node"
    /\ out' = [op |-> "render_node", prims |-> render_node(arg.node)]
    /\ UNCHANGED <<nodes, edges, canvas, arg>>

RenderNodeXs == {U(0 - 3), U(0), U(10)}

RenderNodeYs == {U(0), U(5)}

\* the default size, and 3 x 1
RenderNodeSizes == {<<U(8), U(4)>>, <<U(3), U(1)>>}

RenderNodeChoices ==
    {GraphNode("n", x, y, s[1], s[2], c, sel) :
        x \in RenderNodeXs, y \in RenderNodeYs, s \in RenderNodeSizes,
        c \in {"Blue", "Yellow", "Red"}, sel \in BOOLEAN}

InitRenderNode ==
    /\ nodes = <<>>
    /\ edges = <<>>
    /\ canvas = NoCanvas
    /\ arg \in {[fn |-> "render_node", node |-> n] : n \in RenderNodeChoices}
    /\ out = [op |-> "init"]

NextRenderNode == RenderNode

SpecRenderNode == InitRenderNode /\ [][NextRenderNode]_vars

(***************************************************************************)
(* Claims on render_node (SpecRenderNode)                                  *)
(***************************************************************************)
\* the four corners of a rectangle primitive
C26_Corners(r) ==
    { <<r.x, r.y>>, <<r.x + r.width, r.y>>,
      <<r.x, r.y + r.height>>, <<r.x + r.width, r.y + r.height>> }

C26_IsNodeRectangle(p) ==
    p = Rectangle(arg.node.x, arg.node.y, arg.node.width, arg.node.height,
                  arg.node.color)

C26_IsHighlight(p) ==
    \/ p.kind = "rectangle" /\ ~C26_IsNodeRectangle(p)
    \/ p.kind = "points" /\ Len(p.coords) # 1

\* C26: on a selected node render_node emits, before the node's own
\* rectangle, a highlight rectangle at (x-1, y-1) of size (width+2, height+2)
\* and then four points at that rectangle's four corners, both Yellow whatever
\* the node's color; on an unselected node it emits no highlight primitive.
C26_SelectionHighlightFirst ==
    out.op = "render_node" =>
        LET n == arg.node
            p == out.prims
        IN  IF n.selected
            THEN /\ Len(p) >= 3
                 /\ p[1] = Rectangle(n.x - U(1), n.y - U(1), n.width + U(2),
                                     n.height + U(2), "Yellow")
                 /\ p[2].kind = "points"
                 /\ p[2].color = "Yellow"
                 /\ Len(p[2].coords) = 4
                 /\ {p[2].coords[k] : k \in 1 .. 4} = C26_Corners(p[1])
                 /\ \A k \in DOMAIN p : C26_IsNodeRectangle(p[k]) => k > 2
                 /\ \E k \in DOMAIN p : C26_IsNodeRectangle(p[k])
            ELSE \A k \in DOMAIN p : ~C26_IsHighlight(p[k])

C26_Witness ==
    /\ out.op = "render_node"
    /\ arg.node.selected
    /\ arg.node.color = "Red"
    /\ out.prims[1].color = "Yellow"
    /\ out.prims[2].color = "Yellow"
    /\ C26_IsNodeRectangle(out.prims[3])

\* C27: render_node always emits the node's rectangle (x, y, width, height)
\* followed by one point at (x + width/2, y + height/2), both in the node's
\* color, selected or not; an unselected node emits exactly these two
\* primitives, a selected node exactly four.
C27_RectangleThenCentrePoint ==
    out.op = "render_node" =>
        LET n    == arg.node
            p    == out.prims
            last == Len(p)
        IN  /\ last = IF n.selected THEN 4 ELSE 2
            /\ p[last - 1].kind = "rectangle"
            /\ p[last - 1].x = n.x /\ p[last - 1].y = n.y
            /\ p[last - 1].width = n.width /\ p[last - 1].height = n.height
            /\ p[last - 1].color = n.color
            /\ p[last].kind = "points"
            /\ Len(p[last].coords) = 1
            /\ 2 * p[last].coords[1][1] = 2 * n.x + n.width
            /\ 2 * p[last].coords[1][2] = 2 * n.y + n.height
            /\ p[last].color = n.color

C27_Witness ==
    /\ out.op = "render_node"
    /\ arg.node.selected
    /\ arg.node.color = "Blue"
    /\ Len(out.prims) = 4
    /\ out.prims[4].color = "Blue"
    /\ out.prims[4].coords = << <<arg.node.x + Half(arg.node.width),
                                  arg.node.y + Half(arg.node.height)>> >>

(***************************************************************************)
(* Claims on the geometry of a rendered edge (SpecEdge)                    *)
(***************************************************************************)
\* render_edge found both endpoints and drew the edge
C23_Rendered ==
    /\ out.op = "render_edge"
    /\ arg.edge.from \in DOMAIN arg.map
    /\ arg.edge.to \in DOMAIN arg.map
    /\ out.prims # <<>>

C23_Source == calculate_node_center(arg.map[arg.edge.from])

C23_Destination == calculate_node_center(arg.map[arg.edge.to])

\* the vector from the source centre to the destination centre
C23_Dx == C23_Destination[1] - C23_Source[1]

C23_Dy == C23_Destination[2] - C23_Source[2]

\* the vector from the source centre to the start of the main segment
C23_Sx == out.prims[1].x1 - C23_Source[1]

C23_Sy == out.prims[1].y1 - C23_Source[2]

C24_Ux == C23_Sx \div 2

C24_Uy == C23_Sy \div 2

C24_TipX == out.prims[1].x2

C24_TipY == out.prims[1].y2

C24_Lines == {k \in DOMAIN out.prims : out.prims[k].kind = "line"}

\* C24: the arrow head of a rendered edge has its tip at the inset end of the
\* main segment and size 1.5: base1 = tip - 1.5 u + 0.75 (uy, -ux), base2 =
\* tip - 1.5 u - 0.75 (uy, -ux), the points calculate_arrow_points returns for
\* size 1.5; exactly the three segments tip-base1, tip-base2, base1-base2
\* follow the main segment, in the edge's color.
C24_ArrowHeadAtInsetEnd ==
    C23_Rendered =>
        LET p  == out.prims
            b  == calculate_arrow_points(C24_TipX, C24_TipY, C24_Ux, C24_Uy,
                                         (3 * Scale) \div 2)
        IN  /\ C24_Lines = 1 .. 4
            /\ 4 * b[1][1] = 4 * C24_TipX - 6 * C24_Ux + 3 * C24_Uy
            /\ 4 * b[1][2] = 4 * C24_TipY - 6 * C24_Uy - 3 * C24_Ux
            /\ 4 * b[2][1] = 4 * C24_TipX - 6 * C24_Ux - 3 * C24_Uy
            /\ 4 * b[2][2] = 4 * C24_TipY - 6 * C24_Uy + 3 * C24_Ux
            /\ p[2] = CanvasLine(C24_TipX, C24_TipY, b[1][1], b[1][2], arg.edge.color)
            /\ p[3] = CanvasLine(C24_TipX, C24_TipY, b[2][1], b[2][2], arg.edge.color)
            /\ p[4] = CanvasLine(b[1][1], b[1][2], b[2][1], b[2][2], arg.edge.color)

C24_Witness ==
    /\ C23_Rendered
    /\ C23_Dx = U(0 - 12) /\ C23_Dy = 0
    /\ arg.edge.color = "Red"
    /\ out.prims[4].color = "Red"
    /\ out.prims[4].x1 = out.prims[4].x2
    /\ out.prims[4].y1 # out.prims[4].y2

C25_Points == {k \in DOMAIN out.prims : out.prims[k].kind = "points"}

\* C25: a rendered edge with a label emits exactly one more point, at the
\* midpoint of the inset main segment, after the line and the arrow segments;
\* one without a label emits no point; the text of the label changes nothing
\* that is emitted.
C25_LabelIndicatorAtMidpoint ==
    C23_Rendered =>
        LET p == out.prims
        IN  IF arg.edge.label # None
            THEN /\ C25_Points = {5}
                 /\ Len(p) = 5
                 /\ Len(p[5].coords) = 1
                 /\ 2 * p[5].coords[1][1] = p[1].x1 + p[1].x2
                 /\ 2 * p[5].coords[1][2] = p[1].y1 + p[1].y2
                 /\ \A text \in {"", "100 ev/s", "calls"} :
                        p = render_edge([arg.edge EXCEPT !.label = Some(text)],
                                        arg.map)
            ELSE C25_Points = {} /\ Len(p) = 4

C25_Witness ==
    /\ C23_Rendered
    /\ arg.edge.label = Some("")
    /\ Len(out.prims) = 5
    /\ out.prims[5].kind = "points"
    /\ C23_Dx = U(6) /\ C23_Dy = U(8)

\* the distance between the two centres, and the vector of the main segment
C29_Distance == FHypot(C23_Dx, C23_Dy)

C29_Vx == out.prims[1].x2 - out.prims[1].x1

C29_Vy == out.prims[1].y2 - out.prims[1].y1

format_latency(us) ==
    IF us >= 1000000 THEN TwoDecimals(us, 1000000) \o "s"
    ELSE IF us >= 1000 THEN TwoDecimals(us, 1000) \o "ms"
    ELSE ToString(us) \o "μs"

(***************************************************************************)
(* u64 values of 2^63 and more, which `as u64` makes of a negative i64.    *)
(* No integer of the model checker holds them: they are kept as their      *)
(* decimal digits, most significant first, and the formatting functions    *)
(* are computed on the digits, in the branch such a value takes.  n as f64 *)
(* is then the nearest multiple of 2048; the inputs are kept away from the *)
(* values where that changes the second decimal.                           *)
(***************************************************************************)
RECURSIVE Digits(_)
\* the decimal digits of n >= 0
Digits(n) == IF n < 10 THEN <<n>> ELSE Append(Digits(n \div 10), n % 10)

RECURSIVE Stripped(_)
\* without leading zeros
Stripped(d) == IF Len(d) > 1 /\ d[1] = 0 THEN Stripped(Tail(d)) ELSE d

\* with leading zeros, to len digits
Padded(d, len) ==
    [k \in 1 .. len |-> IF k <= len - Len(d) THEN 0 ELSE d[k - (len - Len(d))]]

RECURSIVE DigitString(_)
DigitString(d) == IF d = <<>> THEN "" ELSE ToString(d[1]) \o DigitString(Tail(d))

\* 2^64 = 18446744073709551616
TwoTo64 == <<1, 8, 4, 4, 6, 7, 4, 4, 0, 7, 3, 7, 0, 9, 5, 5, 1, 6, 1, 6>>

RECURSIVE WideSubFrom(_, _, _, _)
\* digits 1 .. i of a - b, the borrow coming from digit i + 1
WideSubFrom(a, b, i, borrow) ==
    IF i = 0 THEN <<>>
    ELSE LET t == a[i] - b[i] - borrow
         IN  Append(WideSubFrom(a, b, i - 1, IF t < 0 THEN 1 ELSE 0),
                    IF t < 0 THEN t + 10 ELSE t)

\* a - b for a >= b
WideSub(a, b) == Stripped(WideSubFrom(a, Padded(b, Len(a)), Len(a), 0))

RECURSIVE WideSucc(_)
\* a + 1
WideSucc(a) ==
    IF a = <<>> THEN <<1>>
    ELSE IF a[Len(a)] < 9 THEN [a EXCEPT ![Len(a)] = a[Len(a)] + 1]
    ELSE Append(WideSucc(SubSeq(a, 1, Len(a) - 1)), 0)

RECURSIVE WideDivFrom(_, _, _, _)
\* long division of the digits i .. Len(a) by k, rem carried in
WideDivFrom(a, k, i, rem) ==
    IF i > Len(a) THEN << <<>>, rem >>
    ELSE LET cur  == rem * 10 + a[i]
             rest == WideDivFrom(a, k, i + 1, cur % k)
         IN  << <<cur \div k>> \o rest[1], rest[2] >>

\* << a / k, a % k >> for a divisor k below 2^27
WideDiv(a, k) ==
    LET qr == WideDivFrom(a, k, 1, 0)
    IN  << Stripped(qr[1]), qr[2] >>

\* faulty variant: a negative value is clamped to 0
as_u64_saturating(i) ==
    IF i >= 0 THEN [wide |-> FALSE, n |-> i] ELSE [wide |-> FALSE, n |-> 0]

\* `i as u64` for an i64: i itself when it is not negative, i + 2^64 otherwise
as_u64(i) ==
    IF i >= 0 THEN [wide |-> FALSE, n |-> i]
    ELSE [wide |-> TRUE, digits |-> WideSub(TwoTo64, Digits(0 - i))]

\* format!("{:.2}", n as f64 / 10^places) on the digits of n
WideTwoDecimals(a, places) ==
    LET kept  == Len(a) - (places - 2)
        cut   == SubSeq(a, 1, kept)
        h     == IF a[kept + 1] >= 5 THEN WideSucc(cut) ELSE cut
    IN  DigitString(SubSeq(h, 1, Len(h) - 2)) \o "."
            \o DigitString(SubSeq(h, Len(h) - 1, Len(h)))

\* format_number(num) for the u64 num
format_number_u64(num) ==
    IF ~num.wide THEN format_number(num.n)
    ELSE WideTwoDecimals(num.digits, 9) \o "B"

\* format_latency(us) for the u64 us
format_latency_u64(us) ==
    IF ~us.wide THEN format_latency(us.n)
    ELSE WideTwoDecimals(us.digits, 6) \o "s"

\* format_bytes(bytes) for the u64 bytes: bytes / GB by three divisions by 1024
format_bytes_u64(bytes) ==
    IF ~bytes.wide THEN format_bytes(bytes.n)
    ELSE LET d1    == WideDiv(bytes.digits, KB)
             d2    == WideDiv(d1[1], KB)
             d3    == WideDiv(d2[1], KB)
             below == (d3[2] * KB + d2[2]) * KB + d1[2]
             h     == IF below = 0 THEN 0 ELSE Hundredths(below, GB)
             whole == IF h = 100 THEN WideSucc(d3[1]) ELSE d3[1]
         IN  DigitString(whole) \o "." \o TwoDigits(h % 100) \o " GB"

\* format_duration(Duration::from_secs(secs)) for the u64 secs
format_duration_u64(secs) ==
    IF ~secs.wide THEN format_duration(Duration_from_secs(secs.n))
    ELSE LET hours   == WideDiv(secs.digits, 3600)
             minutes == hours[2] \div 60
             seconds == WideDiv(secs.digits, 60)[2]
         IN  DigitString(hours[1]) \o "h " \o ToString(minutes) \o "m "
                 \o ToString(seconds) \o "s"

(***************************************************************************)
(* bindings/mod.rs: the formatting natives.  A Value is a record with its  *)
(* type name; a native returns Ok(value) or Err(error).                    *)
(***************************************************************************)
Value_Int(i) == [type |-> "int", int |-> i]

Value_Str(s) == [type |-> "string", str |-> s]

Value_Bool(b) == [type |-> "bool", bool |-> b]

Value_Unit == [type |-> "unit"]

\* Value::type_name
type_name(v) == v.type

\* Value::as_int: the integer of a Value::Int, None for any other value
as_int(v) == IF v.type = "int" THEN Some(v.int) ELSE None

Ok(v) == [ok |-> TRUE, value |-> v]

Err(e) == [ok |-> FALSE, error |-> e]

VmError_Runtime(message) == [kind |-> "Runtime", message |-> message]

VmError_TypeMismatch(expected, got) ==
    [kind |-> "TypeMismatch", expected |-> expected, got |-> got]

tui_format_number(args) ==
    IF Len(args) # 1
    THEN Err(VmError_Runtime("tui_format_number expects 1 argument: number (int)"))
    ELSE IF as_int(args[1]) = None
    THEN Err(VmError_TypeMismatch("int", type_name(args[1])))
    ELSE LET num == as_u64(as_int(args[1])[1])
         IN  Ok(Value_Str(format_number_u64(num)))

tui_format_bytes(args) ==
    IF Len(args) # 1
    THEN Err(VmError_Runtime("tui_format_bytes expects 1 argument: bytes (int)"))
    ELSE IF as_int(args[1]) = None
    THEN Err(VmError_TypeMismatch("int", type_name(args[1])))
    ELSE LET bytes == as_u64(as_int(args[1])[1])
         IN  Ok(Value_Str(format_bytes_u64(bytes)))

\* faulty variant: arguments after the first are ignored
tui_format_latency_first_argument(args) ==
    IF Len(args) < 1
    THEN Err(VmError_Runtime("tui_format_latency expects 1 argument: microseconds (int)"))
    ELSE IF as_int(args[1]) = None
    THEN Err(VmError_TypeMismatch("int", type_name(args[1])))
    ELSE LET us == as_u64(as_int(args[1])[1])
         IN  Ok(Value_Str(format_latency_u64(us)))

tui_format_latency(args) ==
    IF Len(args) # 1
    THEN Err(VmError_Runtime("tui_format_latency expects 1 argument: microseconds (int)"))
    ELSE IF as_int(args[1]) = None
    THEN Err(VmError_TypeMismatch("int", type_name(args[1])))
    ELSE LET us == as_u64(as_int(args[1])[1])
         IN  Ok(Value_Str(format_latency_u64(us)))

tui_format_duration(args) ==
    IF Len(args) # 1
    THEN Err(VmError_Runtime("tui_format_duration expects 1 argument: seconds (int)"))
    ELSE IF as_int(args[1]) = None
    THEN Err(VmError_TypeMismatch("int", type_name(args[1])))
    ELSE LET secs == as_u64(as_int(args[1])[1])
         IN  Ok(Value_Str(format_duration_u64(secs)))

(***************************************************************************)
(* SpecNative: one call of a formatting native with any argument list      *)
(***************************************************************************)
TuiFormatNumber ==
    /\ arg.fn = "tui_format_number"
    /\ out' = [op |-> "tui_format_number", result |-> tui_format_number(arg.args)]
    /\ UNCHANGED <<nodes, edges, canvas, arg>>

TuiFormatBytes ==
    /\ arg.fn = "tui_format_bytes"
    /\ out' = [op |-> "tui_format_bytes", result |-> tui_format_bytes(arg.args)]
    /\ UNCHANGED <<nodes, edges, canvas, arg>>

TuiFormatLatency ==
    /\ arg.fn = "tui_format_latency"
    /\ out' = [op |-> "tui_format_latency", result |-> tui_format_latency(arg.args)]
    /\ UNCHANGED <<nodes, edges, canvas, arg>>

TuiFormatDuration ==
    /\ arg.fn = "tui_format_duration"
    /\ out' = [op |-> "tui_format_duration", result |-> tui_format_duration(arg.args)]
    /\ UNCHANGED <<nodes, edges, canvas, arg>>

NativeNames ==
    {"tui_format_number", "tui_format_bytes", "tui_format_latency",
     "tui_format_duration"}

\* -1, -2, two values a borrow apart, -1000 and the least 32-bit value but one
NegativeInts == {0 - 1, 0 - 2, 0 - 616, 0 - 617, 0 - 1000, 0 - 2147483647}

NativeInts == NegativeInts \cup {0, 42, 999, 1500, 3661, 2048, 2500000}

NativeValues ==
    {Value_Int(i) : i \in NativeInts}
    \cup {Value_Str("1500"), Value_Str(""), Value_Bool(TRUE), Value_Unit}

\* no argument, one, two and three
NativeArgs ==
    {<<>>}
    \cup {<<v>> : v \in NativeValues}
    \cup {<<v, w>> : v \in NativeValues, w \in {Value_Int(1500), Value_Unit}}
    \cup {<<Value_Int(42), Value_Int(0 - 1), Value_Int(7)>>}

InitNative ==
    /\ nodes = <<>>
    /\ edges = <<>>
    /\ canvas = NoCanvas
    /\ arg \in {[fn |-> f, args |-> a] : f \in NativeNames, a \in NativeArgs}
    /\ out = [op |-> "init"]

NextNative ==
    \/ TuiFormatNumber
    \/ TuiFormatBytes
    \/ TuiFormatLatency
    \/ TuiFormatDuration

SpecNative == InitNative /\ [][NextNative]_vars

(***************************************************************************)
(* Claims on the formatting natives (SpecNative)                           *)
(***************************************************************************)
\* C28: each of tui_format_number, tui_format_bytes, tui_format_latency and
\* tui_format_duration returns a Runtime error for any number of arguments
\* other than one, a TypeMismatch error expecting int when its one argument
\* is not an int, and a string only for exactly one int; an error carries no
\* formatted output.
C28_ArgumentChecks ==
    out.op \in NativeNames =>
        LET args == arg.args
            r    == out.result
        IN  /\ Len(args) # 1 => ~r.ok /\ r.error.kind = "Runtime"
            /\ Len(args) = 1 /\ args[1].type # "int" =>
                   /\ ~r.ok
                   /\ r.error.kind = "TypeMismatch"
                   /\ r.error.expected = "int"
                   /\ r.error.got = args[1].type
            /\ Len(args) = 1 /\ args[1].type = "int" =>
                   r.ok /\ r.value.type = "string"
            /\ ~r.ok => "value" \notin DOMAIN r

C28_Witness ==
    /\ out.op = "tui_format_latency"
    /\ Len(arg.args) = 2
    /\ arg.args[1].type = "int"
    /\ ~out.result.ok
    /\ out.result.error.kind = "Runtime"

RECURSIVE C30_SumFrom(_, _, _, _)
\* digits 1 .. i of a + b, the carry coming from digit i + 1
C30_SumFrom(a, b, i, carry) ==
    IF i = 0 THEN IF carry = 0 THEN <<>> ELSE <<carry>>
    ELSE LET t == a[i] + b[i] + carry
         IN  Append(C30_SumFrom(a, b, i - 1, t \div 10), t % 10)

\* the digits of n + 2^64 for a negative n: what adds up with -n to 2^64
C30_Wrapped(n) == WideSub(TwoTo64, Digits(0 - n))

C30_Formatted(op, num) ==
    IF op = "tui_format_number" THEN format_number_u64(num)
    ELSE IF op = "tui_format_bytes" THEN format_bytes_u64(num)
    ELSE IF op = "tui_format_latency" THEN format_latency_u64(num)
    ELSE format_duration_u64(num)

\* C30: the formatting natives turn their signed argument into an unsigned
\* one by wrap-around modulo 2^64, with no range check: a negative n is never
\* rejected and is formatted as n + 2^64 (-1 as 18446744073709551615), by all
\* four natives alike.
C30_NegativeWrapsAround ==
    (/\ out.op \in NativeNames
     /\ Len(arg.args) = 1
     /\ arg.args[1].type = "int"
     /\ arg.args[1].int < 0) =>
        LET n == arg.args[1].int
            w == C30_Wrapped(n)
        IN  /\ out.result.ok
            /\ Len(w) = 20
            /\ C30_SumFrom(w, Padded(Digits(0 - n), 20), 20, 0) = TwoTo64
            /\ n = 0 - 1 =>
                   DigitString(w) = "18446744073709551615"
            /\ out.result.value.str =
                   C30_Formatted(out.op, [wide |-> TRUE, digits |-> w])
            /\ n = 0 - 1 /\ out.op = "tui_format_number" =>
                   out.result.value.str = "18446744073.71B"
            /\ n = 0 - 1 /\ out.op = "tui_format_bytes" =>
                   out.result.value.str = "17179869184.00 GB"
            /\ n = 0 - 1 /\ out.op = "tui_format_latency" =>
                   out.result.value.str = "18446744073709.55s"
            /\ n = 0 - 1 /\ out.op = "tui_format_duration" =>
                   out.result.value.str = "5124095576030431h 0m 15s"

C30_Witness ==
    /\ out.op = "tui_format_duration"
    /\ arg.args = <<Value_Int(0 - 1)>>
    /\ out.result.ok
    /\ out.result.value.str = "5124095576030431h 0m 15s"
====
